---- MODULE Spec2Model ----
(***************************************************************************)
(* Verification model of the pulse synchronisation protocol:               *)
(*   - server/main.go   : the pulse scheduler (startPulseLoop) and the     *)
(*                        connection hub (add / remove / broadcastJSON)    *)
(*   - src/pulse-sync.ts: the client sync engine (PulseSyncClient)         *)
(* The specifications share the module: SpecPulse (scheduler and clock),   *)
(* SpecHub, SpecHubFair and SpecUpgrade (hub and /ws handler), SpecFrame   *)
(* (frame encoding), SpecClient and SpecClientWindow (client engine).      *)
(***************************************************************************)
EXTENDS Integers, Sequences, FiniteSets, TLC

(* ------------------------------ bounds -------------------------------- *)
\* clock resolution: clock units per millisecond (stands for nanoseconds)
UnitsPerMs == 2
\* configured PULSE_PERIOD_MS (always positive after parsePeriodMS)
PeriodMs == 2
\* the clock stops advancing here
MaxClock == 14
\* the scheduler stops emitting after this many messages
MaxSeq == 4
\* number of clients that request /ws
MaxConns == 2
\* number of broadcastJSON calls
MaxBroadcasts == 2
\* WebSocket objects one client creates
MaxSockets == 2
\* pulses a client processes beyond its stability window size
PulsesPastWindow == 2
\* period_ms carried by well-formed inbound messages
InboundPeriodMs == 10
\* arrival jitter of a disturbed message, in ms
JitterMs == 6
\* largest delay between two performance.now() readings of one handler
MaxLag == 1
\* every payload length up to this one is written
MaxSmallPayload == 130
\* payload lengths this far below and above 65535 are written
BoundaryReach == 2

(* ----------------------- program constants ---------------------------- *)
DefaultThresholdMs == 5
DefaultRequiredStablePulses == 15
DefaultAllowedUnstablePulses == 2
DefaultBetaPct == 5
DefaultMaxBiasCorrectionMs == 25
MinMaxBiasCorrection == 1
FallbackPeriodMs == 1000
FallbackServerMs == 0
StatusBadRequest == 400
StatusSwitchingProtocols == 101
finAndText == 129
MaxUint16 == 65535

VARIABLES
  \* ---- pulse scheduler (startPulseLoop) ----
  clock,      \* time.Now(), in clock units
  spc,        \* position of the scheduler goroutine
  seq,        \* var seq uint64
  next,       \* next time.Time (scheduled instant)
  now,        \* now time.Time (last reading taken for a message)
  sent,       \* messages handed to h.broadcastJSON, in order
  sentSched,  \* history: nominal (scheduled) instant of each sent message
  sentNow,    \* history: the raw clock reading behind each now_ms
  untilRead,  \* history: clock reading of the last time.Until(next)
  skipped     \* history: instants the catch-up loop has stepped over

schedVars == <<clock, spc, seq, next, now, sent, sentSched, sentNow, untilRead, skipped>>

VARIABLES
  \* ---- connection hub and its tasks ----
  conns,      \* h.conns: the registered connections
  hubW,       \* task holding h.mu exclusively (Lock), or NoTask
  hubR,       \* tasks holding h.mu shared (RLock)
  connMu,     \* per connection: task holding wsConn.mu, or NoTask
  closed,     \* per connection: net.Conn has been closed locally
  closeCalls, \* per connection: number of c.close() invocations
  peerGone,   \* per connection: the peer closed / the transport ended
  hpc,        \* per connection: position of the /ws handler
  rpc,        \* per connection: position of the reader goroutine
  bpc,        \* position of the goroutine running broadcastJSON
  bRest,      \* snapshot members not yet visited by the range loop
  bCur,       \* connection of the current loop iteration (0: none)
  bcasts,     \* broadcastJSON calls started
  bTaken,     \* history: the snapshot as taken by the current call
  bWritten,   \* history: connections the current call wrote to successfully
  bFailed,    \* history: connections whose write failed in the current call
  removals,   \* history: per connection, deletions of a present member
  wsReq,      \* per connection: the request its client sends to /ws
  hresp       \* per connection: what the /ws handler answered

hubVars == <<conns, hubW, hubR, connMu, closed, closeCalls, peerGone, hpc, rpc,
             bpc, bRest, bCur, bcasts, bTaken, bWritten, bFailed,
             removals, wsReq, hresp>>

VARIABLES
  \* ---- client sync engine (PulseSyncClient) ----
  cfg,                       \* the readonly options fixed by the constructor
  socks,                     \* state of every WebSocket created so far
  ws,                        \* this.ws: index into socks, 0 for null
  connected,
  lastPulse,
  lastPredictedArrivalMono,
  arrivalBiasMs,
  stableCount,
  recentStability,
  preserveStateOnClose,
  lockOriginMonoMs,
  lockOriginServerMs,
  locked,
  estimatedServerNowMs,
  emitted,                   \* events dispatched by the latest handler or call
  lastOp,                    \* history: the latest handler or call
  nPulses,                   \* history: pulses processed by handlePulse
  noiseless,                 \* history: every pulse arrived exactly one period after its predecessor and no close has cleared the engine
  errHist,                   \* history: outlier flag of each error-bearing pulse since the window was last cleared
  sockLog                    \* history: per socket until its close event, what disconnect asked for and whether a pulse was processed on it

clientState == <<ws, connected, lastPulse, lastPredictedArrivalMono, arrivalBiasMs,
                 stableCount, recentStability, preserveStateOnClose,
                 lockOriginMonoMs, lockOriginServerMs, locked, estimatedServerNowMs>>

clientVars == <<cfg, socks, clientState, emitted, lastOp, nPulses, noiseless, errHist, sockLog>>

VARIABLES
  \* ---- wsConn.writeText: the frame header ----
  frameLen,   \* len(payload) of the text frame being written
  frameHdr    \* the bytes appended to frame before the payload

frameVars == <<frameLen, frameHdr>>

vars == <<schedVars, hubVars, clientVars, frameVars>>

(* --------------------------- pulse scheduler --------------------------- *)
\* period time.Duration as produced by parsePeriodMS
period == PeriodMs * UnitsPerMs

\* Duration.Milliseconds()
periodMS == period \div UnitsPerMs

\* Time.UnixMilli(): truncation to whole milliseconds
UnixMilli(t) == t \div UnitsPerMs

\* pulseMessage literal
pulseMessage(s, p, n, x) ==
  [type |-> "pulse", seq |-> s, period_ms |-> p, now_ms |-> n, next_ms |-> x]

\* NextMS of the immediate message
FirstNextMS(nx) == UnixMilli(nx)

TickNextMS_late(nx, p) == UnixMilli(nx + p + p)
\* NextMS of a regular tick: next.Add(period).UnixMilli()
TickNextMS(nx, p) == UnixMilli(nx + p)

SeqInc_skip(s) == s + 2
\* seq++
SeqInc(s) == s + 1

CatchUpBehind_strict(nx, t) == nx - t < 0
\* time.Until(next) <= 0
CatchUpBehind(nx, t) == nx - t <= 0

SchedInit ==
  /\ clock \in 0..(UnitsPerMs - 1)
  /\ spc = "start"
  /\ seq = 0
  /\ next = 0
  /\ now = 0
  /\ sent = <<>>
  /\ sentSched = <<>>
  /\ sentNow = <<>>
  /\ untilRead = 0
  /\ skipped = {}

\* time passes
Tick ==
  /\ clock < MaxClock
  /\ clock' = clock + 1
  /\ UNCHANGED <<spc, seq, next, now, sent, sentSched, sentNow, untilRead, skipped>>
  /\ UNCHANGED <<hubVars, clientVars, frameVars>>

\* next := time.Now().Add(period)
PulseStart ==
  /\ spc = "start"
  /\ next' = clock + period
  /\ spc' = "first_now"
  /\ UNCHANGED <<clock, seq, now, sent, sentSched, sentNow, untilRead, skipped>>
  /\ UNCHANGED <<hubVars, clientVars, frameVars>>

\* now := time.Now()
PulseFirstNow ==
  /\ spc = "first_now"
  /\ now' = clock
  /\ spc' = "first_send"
  /\ UNCHANGED <<clock, seq, next, sent, sentSched, sentNow, untilRead, skipped>>
  /\ UNCHANGED <<hubVars, clientVars, frameVars>>

\* h.broadcastJSON(pulseMessage{...}); seq++
PulseFirstSend ==
  /\ spc = "first_send"
  /\ sent' = Append(sent, pulseMessage(seq, periodMS, UnixMilli(now), FirstNextMS(next)))
  /\ sentSched' = Append(sentSched, next - period)
  /\ sentNow' = Append(sentNow, now)
  /\ seq' = SeqInc(seq)
  /\ spc' = "sleep"
  /\ UNCHANGED <<clock, next, now, untilRead, skipped>>
  /\ UNCHANGED <<hubVars, clientVars, frameVars>>

\* sleepFor := time.Until(next); if sleepFor > 0 { time.Sleep(sleepFor) }
\* the goroutine resumes at some instant not before next
PulseSleep ==
  /\ spc = "sleep"
  /\ seq < MaxSeq
  /\ clock >= next
  /\ spc' = "tick_now"
  /\ UNCHANGED <<clock, seq, next, now, sent, sentSched, sentNow, untilRead, skipped>>
  /\ UNCHANGED <<hubVars, clientVars, frameVars>>

\* now = time.Now()
PulseTickNow ==
  /\ spc = "tick_now"
  /\ now' = clock
  /\ spc' = "tick_send"
  /\ UNCHANGED <<clock, seq, next, sent, sentSched, sentNow, untilRead, skipped>>
  /\ UNCHANGED <<hubVars, clientVars, frameVars>>

\* h.broadcastJSON(msg); seq++; next = next.Add(period)
PulseTickSend ==
  /\ spc = "tick_send"
  /\ sent' = Append(sent, pulseMessage(seq, periodMS, UnixMilli(now), TickNextMS(next, period)))
  /\ sentSched' = Append(sentSched, next)
  /\ sentNow' = Append(sentNow, now)
  /\ seq' = SeqInc(seq)
  /\ next' = next + period
  /\ spc' = "catchup"
  /\ UNCHANGED <<clock, now, untilRead, skipped>>
  /\ UNCHANGED <<hubVars, clientVars, frameVars>>

\* for time.Until(next) <= 0 { next = next.Add(period) }
PulseCatchUp ==
  /\ spc = "catchup"
  /\ untilRead' = clock
  /\ IF CatchUpBehind(next, clock)
       THEN /\ next' = next + period
            /\ skipped' = skipped \cup {next}
            /\ spc' = "catchup"
       ELSE /\ spc' = "sleep"
            /\ UNCHANGED <<next, skipped>>
  /\ UNCHANGED <<clock, seq, now, sent, sentSched, sentNow>>
  /\ UNCHANGED <<hubVars, clientVars, frameVars>>

PulseNext ==
  \/ Tick
  \/ PulseStart
  \/ PulseFirstNow
  \/ PulseFirstSend
  \/ PulseSleep
  \/ PulseTickNow
  \/ PulseTickSend
  \/ PulseCatchUp

(* --------------------------- connection hub ---------------------------- *)
Conns == 1..MaxConns

\* task identities: the goroutine running the pulse loop (and so
\* broadcastJSON), the /ws handler of a connection, its reader goroutine
NoTask == <<"none", 0>>
BTask == <<"pulse", 0>>
HTask(c) == <<"handler", c>>
RTask(c) == <<"reader", c>>

memVars == <<conns, removals>>
lockVars == <<hubW, hubR, connMu>>
connVars == <<closed, closeCalls, peerGone>>
taskVars == <<hpc, rpc>>
bVars == <<bpc, bRest, bCur, bcasts, bTaken, bWritten, bFailed>>
reqVars == <<wsReq, hresp>>

\* strings.TrimSpace on the header values that occur
TrimSpace(str) ==
  CASE str = " Upgrade" -> "Upgrade"
    [] str = " upgrade " -> "upgrade"
    [] str = " " -> ""
    [] str = " dGhlIHNhbXBsZQ== " -> "dGhlIHNhbXBsZQ=="
    [] OTHER -> str

\* case folding behind strings.EqualFold on the header values that occur
Fold(str) ==
  CASE str \in {"Upgrade", "upgrade", "UPGRADE"} -> "upgrade"
    [] str \in {"websocket", "WebSocket", "WEBSOCKET"} -> "websocket"
    [] str \in {"keep-alive", "Keep-Alive"} -> "keep-alive"
    [] OTHER -> str

EqualFold(a, b) == Fold(a) = Fold(b)

\* containsToken over the parts of strings.Split(headerVal, ",")
containsToken(parts, want) ==
  \E i \in 1..Len(parts) : EqualFold(TrimSpace(parts[i]), want)

\* requests reaching /ws: the four handshake headers
Requests ==
  [connection : {<<"Upgrade">>, <<"keep-alive", " Upgrade">>, <<"keep-alive">>, <<"">>},
   upgrade    : {"websocket", "WebSocket", "h2c", ""},
   version    : {"13", "8", ""},
   key        : {"dGhlIHNhbXBsZQ==", " dGhlIHNhbXBsZQ== ", " ", ""}]

\* what the connection does during the handshake
Handshakes == {"ok", "hijack_err", "write_err", "flush_err"}

upgradeWebSocket_anyVersion(req, io) ==
  IF ~containsToken(req.connection, "Upgrade") THEN "missing connection upgrade"
  ELSE IF ~EqualFold(req.upgrade, "websocket") THEN "missing websocket upgrade"
  ELSE IF TrimSpace(req.key) = "" THEN "missing websocket key"
  ELSE IF io = "hijack_err" THEN "hijack connection"
  ELSE IF io = "write_err" THEN "write handshake"
  ELSE IF io = "flush_err" THEN "flush handshake"
  ELSE "ok"
\* upgradeWebSocket: "ok" when a *wsConn is returned, else the error
upgradeWebSocket(req, io) ==
  IF ~containsToken(req.connection, "Upgrade") THEN "missing connection upgrade"
  ELSE IF ~EqualFold(req.upgrade, "websocket") THEN "missing websocket upgrade"
  ELSE IF req.version # "13" THEN "unsupported websocket version"
  ELSE IF TrimSpace(req.key) = "" THEN "missing websocket key"
  ELSE IF io = "hijack_err" THEN "hijack connection"
  ELSE IF io = "write_err" THEN "write handshake"
  ELSE IF io = "flush_err" THEN "flush handshake"
  ELSE "ok"

hubDelete_keep(S, c) == S
\* delete(h.conns, c)
hubDelete(S, c) == S \ {c}

\* h.conns[c] = struct{}{}
hubInsert(S, c) == S \cup {c}

\* h.mu.Lock() can be taken
CanLock == hubW = NoTask /\ hubR = {}

\* h.mu.RLock() can be taken
CanRLock == hubW = NoTask

\* c.conn.Write(frame) on a locally closed connection always fails; on an
\* open one it succeeds or fails (peer reset, write deadline exceeded)
WriteOutcomes(c) == IF closed[c] THEN {FALSE} ELSE {TRUE, FALSE}

\* the results upgradeWebSocket can give over all requests and handshakes
UpgradeResults == {upgradeWebSocket(req, io) : req \in Requests, io \in Handshakes}

\* a request the server accepts, and one it rejects for its version
AcceptedRequest ==
  [req |-> [connection |-> <<"keep-alive", " Upgrade">>, upgrade |-> "WebSocket",
            version |-> "13", key |-> "dGhlIHNhbXBsZQ=="],
   io |-> "ok"]
RejectedRequest ==
  [req |-> [connection |-> <<"Upgrade">>, upgrade |-> "websocket",
            version |-> "8", key |-> "dGhlIHNhbXBsZQ=="],
   io |-> "ok"]

\* the /ws handler's answer: the error of upgradeWebSocket ("ok" for nil)
\* and the HTTP status it was answered with
NoResponse == [err |-> "", status |-> 0]
Response(err) ==
  [err |-> err, status |-> IF err = "ok" THEN StatusSwitchingProtocols ELSE StatusBadRequest]

\* the hub and its tasks before any request
HubFields ==
  /\ conns = {}
  /\ hubW = NoTask
  /\ hubR = {}
  /\ connMu = [c \in Conns |-> NoTask]
  /\ closed = [c \in Conns |-> FALSE]
  /\ closeCalls = [c \in Conns |-> 0]
  /\ peerGone = [c \in Conns |-> FALSE]
  /\ hpc = [c \in Conns |-> "idle"]
  /\ rpc = [c \in Conns |-> "none"]
  /\ bpc = "idle"
  /\ bRest = {}
  /\ bCur = 0
  /\ bTaken = {}
  /\ bWritten = {}
  /\ bFailed = {}
  /\ removals = [c \in Conns |-> 0]
  /\ hresp = [c \in Conns |-> NoResponse]

\* every client sends one of two requests: an accepted and a rejected one
HubInit ==
  /\ HubFields
  /\ bcasts = 0
  /\ wsReq \in [Conns -> {AcceptedRequest, RejectedRequest}]

\* a hub that no client contacts
HubIdle ==
  /\ HubFields
  /\ bcasts = 0
  /\ wsReq = [c \in Conns |-> AcceptedRequest]

\* all clients send the same request, any of the modelled ones
\* the hub when all broadcasts but the last have run, each before any
\* client sent its request (an empty snapshot leaves the hub as it was)
HubInitLate ==
  /\ HubFields
  /\ bcasts = MaxBroadcasts - 1
  /\ wsReq \in [Conns -> {AcceptedRequest, RejectedRequest}]

UpgradeInit ==
  /\ HubFields
  /\ bcasts = 0
  /\ \E req \in Requests, io \in Handshakes :
       wsReq = [c \in Conns |-> [req |-> req, io |-> io]]

wsClose_noop(cl, c) == cl
\* wsConn.close(): c.conn.Close()
wsClose(cl, c) == [cl EXCEPT ![c] = TRUE]

\* body of hub.remove once h.mu is held by task t: delete, close, Unlock
RemoveBody(t, c) ==
  /\ hubW = t
  /\ conns' = hubDelete(conns, c)
  /\ removals' = [removals EXCEPT ![c] = @ + (IF c \in conns THEN 1 ELSE 0)]
  /\ closed' = wsClose(closed, c)
  /\ closeCalls' = [closeCalls EXCEPT ![c] = @ + 1]
  /\ hubW' = NoTask
  /\ UNCHANGED <<hubR, connMu, peerGone>>

\* /ws handler: c, err := upgradeWebSocket(w, r); on error answer 400
HandleUpgrade(c) ==
  /\ hpc[c] = "idle"
  /\ LET res == upgradeWebSocket(wsReq[c].req, wsReq[c].io)
     IN /\ res \in UpgradeResults
        /\ hresp' = [hresp EXCEPT ![c] = Response(res)]
        /\ IF res = "ok"
             THEN hpc' = [hpc EXCEPT ![c] = "add_lock"]
             ELSE hpc' = [hpc EXCEPT ![c] = "rejected"]
  /\ UNCHANGED <<memVars, lockVars, connVars, rpc, bVars, wsReq, schedVars, clientVars, frameVars>>

\* h.add(c): h.mu.Lock()
HandleAddLock(c) ==
  /\ hpc[c] = "add_lock"
  /\ CanLock
  /\ hubW' = HTask(c)
  /\ hpc' = [hpc EXCEPT ![c] = "add_body"]
  /\ UNCHANGED <<memVars, hubR, connMu, connVars, rpc, bVars, reqVars, schedVars, clientVars, frameVars>>

\* h.add(c): h.conns[c] = struct{}{}; Unlock
HandleAddBody(c) ==
  /\ hpc[c] = "add_body"
  /\ hubW = HTask(c)
  /\ conns' = hubInsert(conns, c)
  /\ hubW' = NoTask
  /\ hpc' = [hpc EXCEPT ![c] = "count_lock"]
  /\ UNCHANGED <<removals, hubR, connMu, connVars, rpc, bVars, reqVars, schedVars, clientVars, frameVars>>

\* h.count(): h.mu.RLock()
HandleCountLock(c) ==
  /\ hpc[c] = "count_lock"
  /\ CanRLock
  /\ hubR' = hubR \cup {HTask(c)}
  /\ hpc' = [hpc EXCEPT ![c] = "count_body"]
  /\ UNCHANGED <<memVars, hubW, connMu, connVars, rpc, bVars, reqVars, schedVars, clientVars, frameVars>>

\* h.count(): return len(h.conns); RUnlock; then go func(conn) {...}(c)
HandleCountSpawn(c) ==
  /\ hpc[c] = "count_body"
  /\ Cardinality(conns) \in 0..MaxConns
  /\ hubR' = hubR \ {HTask(c)}
  /\ hpc' = [hpc EXCEPT ![c] = "done"]
  /\ rpc' = [rpc EXCEPT ![c] = "copy"]
  /\ UNCHANGED <<memVars, hubW, connMu, connVars, bVars, reqVars, schedVars, clientVars, frameVars>>

\* the peer closes the connection (or the transport ends otherwise)
PeerClose(c) ==
  /\ hpc[c] \in {"add_lock", "add_body", "count_lock", "count_body", "done"}
  /\ ~peerGone[c]
  /\ peerGone' = [peerGone EXCEPT ![c] = TRUE]
  /\ UNCHANGED <<memVars, lockVars, closed, closeCalls, taskVars, bVars, reqVars, schedVars, clientVars, frameVars>>

CopyReturns_localOnly(c) == closed[c]
\* io.Copy(io.Discard, conn.conn) returns: the read side reports EOF or an
\* error once the transport ended or the connection was closed locally
CopyReturns(c) == peerGone[c] \/ closed[c]

\* reader: io.Copy(io.Discard, conn.conn) returns once the transport ended
\* or the connection was closed locally; the deferred h.remove begins
ReaderCopyEnds(c) ==
  /\ rpc[c] = "copy"
  /\ CopyReturns(c)
  /\ rpc' = [rpc EXCEPT ![c] = "rm_lock"]
  /\ UNCHANGED <<memVars, lockVars, connVars, hpc, bVars, reqVars, schedVars, clientVars, frameVars>>

\* reader: h.remove(conn): h.mu.Lock()
ReaderRemoveLock(c) ==
  /\ rpc[c] = "rm_lock"
  /\ CanLock
  /\ hubW' = RTask(c)
  /\ rpc' = [rpc EXCEPT ![c] = "rm_body"]
  /\ UNCHANGED <<memVars, hubR, connMu, connVars, hpc, bVars, reqVars, schedVars, clientVars, frameVars>>

\* reader: h.remove(conn): delete, close, Unlock
ReaderRemoveBody(c) ==
  /\ rpc[c] = "rm_body"
  /\ RemoveBody(RTask(c), c)
  /\ rpc' = [rpc EXCEPT ![c] = "count_lock"]
  /\ UNCHANGED <<hpc, bVars, reqVars, schedVars, clientVars, frameVars>>

\* reader: h.count() for the log line: RLock
ReaderCountLock(c) ==
  /\ rpc[c] = "count_lock"
  /\ CanRLock
  /\ hubR' = hubR \cup {RTask(c)}
  /\ rpc' = [rpc EXCEPT ![c] = "count_body"]
  /\ UNCHANGED <<memVars, hubW, connMu, connVars, hpc, bVars, reqVars, schedVars, clientVars, frameVars>>

\* reader: h.count() returns; RUnlock; the goroutine ends
ReaderCountDone(c) ==
  /\ rpc[c] = "count_body"
  /\ Cardinality(conns) \in 0..MaxConns
  /\ hubR' = hubR \ {RTask(c)}
  /\ rpc' = [rpc EXCEPT ![c] = "done"]
  /\ UNCHANGED <<memVars, hubW, connMu, connVars, hpc, bVars, reqVars, schedVars, clientVars, frameVars>>

\* broadcastJSON is called: json.Marshal(v) of a pulseMessage succeeds
BroadcastCall ==
  /\ bpc = "idle"
  /\ bcasts < MaxBroadcasts
  /\ bcasts' = bcasts + 1
  /\ bpc' = "rlock"
  /\ bRest' = {}
  /\ bCur' = 0
  /\ bTaken' = {}
  /\ bWritten' = {}
  /\ bFailed' = {}
  /\ UNCHANGED <<memVars, lockVars, connVars, taskVars, reqVars, schedVars, clientVars, frameVars>>

\* h.mu.RLock()
BroadcastRLock ==
  /\ bpc = "rlock"
  /\ CanRLock
  /\ hubR' = hubR \cup {BTask}
  /\ bpc' = "snap"
  /\ UNCHANGED <<memVars, hubW, connMu, connVars, taskVars,
                 bRest, bCur, bcasts, bTaken, bWritten, bFailed, reqVars, schedVars, clientVars, frameVars>>

SnapshotRUnlock_deferred(R) == R
\* broadcastJSON: h.mu.RUnlock() once the snapshot is taken
SnapshotRUnlock(R) == R \ {BTask}

\* conns := copy of the keys of h.conns; h.mu.RUnlock()
BroadcastSnapshot ==
  /\ bpc = "snap"
  /\ bRest' = conns
  /\ bTaken' = conns
  /\ hubR' = SnapshotRUnlock(hubR)
  /\ bpc' = "loop"
  /\ UNCHANGED <<memVars, hubW, connMu, connVars, taskVars,
                 bCur, bcasts, bWritten, bFailed, reqVars, schedVars, clientVars, frameVars>>

\* for _, c := range conns: next element (map order is arbitrary), and
\* c.writeText: frame built, c.mu.Lock()
BroadcastNext ==
  /\ bpc = "loop"
  /\ bRest # {}
  /\ \E c \in bRest :
       /\ connMu[c] = NoTask
       /\ connMu' = [connMu EXCEPT ![c] = BTask]
       /\ bCur' = c
       /\ bRest' = bRest \ {c}
  /\ bpc' = "write"
  /\ UNCHANGED <<memVars, hubW, hubR, connVars, taskVars,
                 bcasts, bTaken, bWritten, bFailed, reqVars, schedVars, clientVars, frameVars>>

\* the remaining snapshot members after a failed write and its h.remove
AfterFailure(rest) == rest

\* c.writeText: SetWriteDeadline, conn.Write(frame), deferred c.mu.Unlock()
BroadcastWrite ==
  /\ bpc = "write"
  /\ connMu[bCur] = BTask
  /\ connMu' = [connMu EXCEPT ![bCur] = NoTask]
  /\ \E ok \in WriteOutcomes(bCur) :
       IF ok THEN /\ bWritten' = bWritten \cup {bCur}
                  /\ bpc' = "loop"
                  /\ UNCHANGED bFailed
             ELSE /\ bFailed' = bFailed \cup {bCur}
                  /\ bpc' = "rm_lock"
                  /\ UNCHANGED bWritten
  /\ UNCHANGED <<memVars, hubW, hubR, connVars, taskVars,
                 bRest, bCur, bcasts, bTaken, reqVars, schedVars, clientVars, frameVars>>

\* write failed: h.remove(c): h.mu.Lock()
BroadcastRemoveLock ==
  /\ bpc = "rm_lock"
  /\ CanLock
  /\ hubW' = BTask
  /\ bpc' = "rm_body"
  /\ UNCHANGED <<memVars, hubR, connMu, connVars, taskVars,
                 bRest, bCur, bcasts, bTaken, bWritten, bFailed, reqVars, schedVars, clientVars, frameVars>>

\* write failed: h.remove(c): delete, close, Unlock; the loop goes on
BroadcastRemoveBody ==
  /\ bpc = "rm_body"
  /\ RemoveBody(BTask, bCur)
  /\ bRest' = AfterFailure(bRest)
  /\ bpc' = "loop"
  /\ UNCHANGED <<taskVars, bCur, bcasts, bTaken, bWritten, bFailed, reqVars, schedVars, clientVars, frameVars>>

\* the range loop is exhausted: broadcastJSON is about to return
BroadcastLoopEnd ==
  /\ bpc = "loop"
  /\ bRest = {}
  /\ bpc' = "ret"
  /\ UNCHANGED <<memVars, lockVars, connVars, taskVars,
                 bRest, bCur, bcasts, bTaken, bWritten, bFailed, reqVars, schedVars, clientVars, frameVars>>

\* broadcastJSON returns to the pulse loop
BroadcastReturn ==
  /\ bpc = "ret"
  /\ bpc' = "idle"
  /\ UNCHANGED <<memVars, lockVars, connVars, taskVars,
                 bRest, bCur, bcasts, bTaken, bWritten, bFailed, reqVars, schedVars, clientVars, frameVars>>

HubNext ==
  \/ \E c \in Conns : HandleUpgrade(c)
  \/ \E c \in Conns : HandleAddLock(c)
  \/ \E c \in Conns : HandleAddBody(c)
  \/ \E c \in Conns : HandleCountLock(c)
  \/ \E c \in Conns : HandleCountSpawn(c)
  \/ \E c \in Conns : PeerClose(c)
  \/ \E c \in Conns : ReaderCopyEnds(c)
  \/ \E c \in Conns : ReaderRemoveLock(c)
  \/ \E c \in Conns : ReaderRemoveBody(c)
  \/ \E c \in Conns : ReaderCountLock(c)
  \/ \E c \in Conns : ReaderCountDone(c)
  \/ BroadcastCall
  \/ BroadcastRLock
  \/ BroadcastSnapshot
  \/ BroadcastNext
  \/ BroadcastWrite
  \/ BroadcastRemoveLock
  \/ BroadcastRemoveBody
  \/ BroadcastLoopEnd
  \/ BroadcastReturn

\* scheduler at rest, for the specifications that do not run it
\* the steps tasks take inside add, remove, count and broadcastJSON
TaskSteps ==
  \/ \E c \in Conns : HandleAddLock(c)
  \/ \E c \in Conns : HandleAddBody(c)
  \/ \E c \in Conns : HandleCountLock(c)
  \/ \E c \in Conns : HandleCountSpawn(c)
  \/ \E c \in Conns : ReaderRemoveLock(c)
  \/ \E c \in Conns : ReaderRemoveBody(c)
  \/ \E c \in Conns : ReaderCountLock(c)
  \/ \E c \in Conns : ReaderCountDone(c)
  \/ BroadcastRLock
  \/ BroadcastSnapshot
  \/ BroadcastNext
  \/ BroadcastWrite
  \/ BroadcastRemoveLock
  \/ BroadcastRemoveBody
  \/ BroadcastLoopEnd
  \/ BroadcastReturn

\* the steps a goroutine that is not blocked takes by itself
ProgressSteps ==
  \/ TaskSteps
  \/ \E c \in Conns : ReaderCopyEnds(c)

\* the /ws handler alone: requests are answered and accepted connections
\* registered, no broadcast runs and no peer closes
UpgradeNext ==
  \/ \E c \in Conns : HandleUpgrade(c)
  \/ \E c \in Conns : HandleAddLock(c)
  \/ \E c \in Conns : HandleAddBody(c)
  \/ \E c \in Conns : HandleCountLock(c)
  \/ \E c \in Conns : HandleCountSpawn(c)

SchedIdle ==
  /\ clock = 0
  /\ spc = "start"
  /\ seq = 0
  /\ next = 0
  /\ now = 0
  /\ sent = <<>>
  /\ sentSched = <<>>
  /\ sentNow = <<>>
  /\ untilRead = 0
  /\ skipped = {}

(* ------------------------- frame header (writeText) ------------------- *)
RECURSIVE ShiftRight8(_, _)
\* uint64(n) >> (8 * k)
ShiftRight8(n, k) == IF k = 0 THEN n ELSE ShiftRight8(n \div 256, k - 1)

\* byte(uint64(n) >> (8 * k)): the conversion keeps the low eight bits
Byte(n, k) == ShiftRight8(n, k) % 256

FrameHeader_littleEndian(n) ==
  IF n < 126 THEN <<finAndText, Byte(n, 0)>>
  ELSE IF n <= MaxUint16 THEN <<finAndText, 126, Byte(n, 0), Byte(n, 1)>>
  ELSE <<finAndText, 127, Byte(n, 7), Byte(n, 6), Byte(n, 5), Byte(n, 4),
         Byte(n, 3), Byte(n, 2), Byte(n, 1), Byte(n, 0)>>
\* writeText: the bytes of frame before the payload, for n = len(payload)
FrameHeader(n) ==
  IF n < 126 THEN <<finAndText, Byte(n, 0)>>
  ELSE IF n <= MaxUint16 THEN <<finAndText, 126, Byte(n, 1), Byte(n, 0)>>
  ELSE <<finAndText, 127, Byte(n, 7), Byte(n, 6), Byte(n, 5), Byte(n, 4),
         Byte(n, 3), Byte(n, 2), Byte(n, 1), Byte(n, 0)>>

\* payload lengths beyond three bytes, up to the largest 32-bit int
LargePayloads == {16777215, 16777216, 2147483647}

\* the payload lengths written: all small ones, those around 65535, large
PayloadSizes ==
  (0..MaxSmallPayload)
    \cup {MaxUint16 + d : d \in (-BoundaryReach)..BoundaryReach}
    \cup LargePayloads

\* a payload of any of the lengths is about to be written
FrameInit == frameLen \in PayloadSizes /\ frameHdr = <<>>

\* writeText(payload): the header is appended to the empty frame
WriteTextFrame ==
  /\ frameHdr = <<>>
  /\ frameHdr' = FrameHeader(frameLen)
  /\ UNCHANGED <<frameLen, schedVars, hubVars, clientVars>>

FrameNext == WriteTextFrame

(* ------------------------- client sync engine -------------------------- *)
\* client times are integers in microseconds: performance.now() resolution
UsPerMs == 1000
Ms(x) == x * UsPerMs

\* a number that may be null / undefined / non-finite: <<>> or <<v>>
None == <<>>
Some(v) == <<v>>
Val(o) == o[1]

Max(a, b) == IF a >= b THEN a ELSE b
Min(a, b) == IF a <= b THEN a ELSE b
Abs(x) == IF x < 0 THEN -x ELSE x

\* finiteOr(v, fallback): Number.isFinite(Number(v)) ? n : fallback
finiteOr(v, fallback) == IF v = None THEN fallback ELSE Val(v)

\* clamp(v, lo, hi)
clamp(v, lo, hi) == Min(hi, Max(lo, v))

\* constructor: defaults and normalisation of the options
\* (option values are whole numbers, so Math.floor leaves them as they are)
Construct(opts) ==
  [thresholdMs           |-> finiteOr(opts.thresholdMs, Ms(DefaultThresholdMs)),
   requiredStablePulses  |-> Max(1, finiteOr(opts.requiredStablePulses, DefaultRequiredStablePulses)),
   allowedUnstablePulses |-> Max(0, finiteOr(opts.allowedUnstablePulses, DefaultAllowedUnstablePulses)),
   betaPct               |-> finiteOr(opts.betaPct, DefaultBetaPct),
   maxBiasCorrectionMs   |-> Max(MinMaxBiasCorrection, finiteOr(opts.maxBiasCorrectionMs, Ms(DefaultMaxBiasCorrectionMs))),
   stickyLock            |-> IF opts.stickyLock = None THEN TRUE ELSE Val(opts.stickyLock)]

\* this.beta * correction, beta given in percent; the product is kept to
\* whole microseconds (rounded toward zero) where the double keeps a fraction
MulBeta(c) ==
  IF c >= 0 THEN (cfg.betaPct * c) \div 100 ELSE -((cfg.betaPct * (-c)) \div 100)

stabilityTarget_raw == cfg.requiredStablePulses - cfg.allowedUnstablePulses
\* stabilityTarget(): Math.max(1, required - allowed)
stabilityTarget == Max(1, cfg.requiredStablePulses - cfg.allowedUnstablePulses)

IgnorePulse_never == FALSE
\* handlePulse: if (this.stickyLock && this.locked) return
IgnorePulse == cfg.stickyLock /\ locked

\* Math.abs(errorMs) <= this.thresholdMs
IsStable(e) == Abs(e) <= cfg.thresholdMs

RECURSIVE CountTrue(_)
\* this.recentStability.filter(Boolean).length
CountTrue(w) == IF w = <<>> THEN 0 ELSE (IF w[1] THEN 1 ELSE 0) + CountTrue(Tail(w))

ShiftWindow_late(w) == IF Len(w) > cfg.requiredStablePulses + 1 THEN Tail(w) ELSE w
\* if (length > requiredStablePulses) this.recentStability.shift()
ShiftWindow(w) == IF Len(w) > cfg.requiredStablePulses THEN Tail(w) ELSE w

updateStability_noEvict(w, errorMs) ==
  IF errorMs = None THEN w ELSE Append(w, IsStable(Val(errorMs)))
\* updateStability: the window after a pulse with the given error
updateStability(w, errorMs) ==
  IF errorMs = None THEN w ELSE ShiftWindow(Append(w, IsStable(Val(errorMs))))

PredictionError_first(prev, arrival) ==
  IF prev = None THEN Some(0) ELSE Some(arrival - Val(prev))
\* errorMs: null without a previous prediction, else arrival - prediction
PredictionError(prev, arrival) ==
  IF prev = None THEN None ELSE Some(arrival - Val(prev))

serverNowAt_fallback(lk, lom, los, lp, t) ==
  IF lk /\ lom # None /\ los # None THEN Some(Val(los) + (t - Val(lom)))
  ELSE IF lp = None THEN None
  ELSE Some(Val(lp).serverNowMs + (t - Val(lp).arrivalMonoMs))
\* serverNowMs() at monotonic time t, over the given engine fields
serverNowAt(lk, lom, los, lp, t) ==
  IF ~lk THEN None
  ELSE IF lom # None /\ los # None THEN Some(Val(los) + (t - Val(lom)))
  ELSE IF lp = None THEN None
  ELSE Some(Val(lp).serverNowMs + (t - Val(lp).arrivalMonoMs))

clearLockOrigin_keep(o) == o
\* clearLockOrigin(): the value both origin fields take
clearLockOrigin(o) == None

\* elapsedSinceLockMs() at monotonic time t
elapsedSinceLockAt(lk, lom, t) ==
  IF ~lk \/ lom = None THEN None ELSE Some(Max(0, t - Val(lom)))

\* predictNextArrivalMonoMs()
predictNextArrival(lp, bias) ==
  IF lp = None THEN None
  ELSE Some(Val(lp).arrivalMonoMs + Val(lp).periodMs + bias)

Options(th, req, al, be, mb, st) ==
  [thresholdMs |-> th, requiredStablePulses |-> req, allowedUnstablePulses |-> al,
   betaPct |-> be, maxBiasCorrectionMs |-> mb, stickyLock |-> st]

\* options a client is constructed with: windows of one to three pulses,
\* tolerances below, at and above the window size, sticky and not
SmallOptions ==
  { Options(None, Some(0), None, Some(50), Some(Ms(2)), None),
    Options(None, Some(1), Some(1), None, None, Some(FALSE)),
    Options(None, Some(2), Some(0), Some(0), None, Some(FALSE)),
    Options(None, Some(2), None, Some(0), None, None),
    Options(None, Some(3), Some(1), Some(0), None, Some(FALSE)) }

\* the configuration of the outlier-tolerance scenario
WindowOptions ==
  { Options(Some(Ms(5)), Some(7), Some(2), Some(0), None, Some(FALSE)),
    Options(Some(Ms(5)), Some(7), Some(2), Some(0), None, None) }

\* a well-formed pulse message sent around server time t
GoodPulse(t) ==
  [type |-> "pulse", seq |-> nPulses, period_ms |-> Some(Ms(InboundPeriodMs)),
   now_ms |-> Some(t + Ms(InboundPeriodMs)), next_ms |-> Some(t + Ms(2 * InboundPeriodMs))]

\* a pulse message whose numeric fields are missing or not finite
BarePulse ==
  [type |-> "pulse", seq |-> nPulses, period_ms |-> None, now_ms |-> None, next_ms |-> None]

\* arrival time of a message that is off its period by j
ArrivalAt(j) ==
  (IF lastPulse = None THEN 0 ELSE Val(lastPulse).arrivalMonoMs) + Ms(InboundPeriodMs) + j

\* the next inbound pulse and its arrival time: a well-formed message one
\* period after the previous arrival, or early / late by the jitter; or a
\* message without numeric fields one period after the previous arrival
Inbound ==
  { <<GoodPulse(ArrivalAt(j)), ArrivalAt(j)>> : j \in {-Ms(JitterMs), 0, Ms(JitterMs)} }
    \cup { <<BarePulse, ArrivalAt(0)>> }

\* pulses the engine still processes in this model
MaxPulses == cfg.requiredStablePulses + PulsesPastWindow

ClientFields ==
  /\ socks = <<>>
  /\ ws = 0
  /\ connected = FALSE
  /\ lastPulse = None
  /\ lastPredictedArrivalMono = None
  /\ arrivalBiasMs = 0
  /\ stableCount = 0
  /\ recentStability = <<>>
  /\ preserveStateOnClose = FALSE
  /\ lockOriginMonoMs = None
  /\ lockOriginServerMs = None
  /\ locked = FALSE
  /\ estimatedServerNowMs = None
  /\ emitted = <<>>
  /\ lastOp = "new"
  /\ nPulses = 0
  /\ noiseless = TRUE
  /\ errHist = <<>>
  /\ sockLog = <<>>

\* new PulseSyncClient(opts)
ClientInit == cfg \in {Construct(o) : o \in SmallOptions} /\ ClientFields

ClientInitWindow == cfg \in {Construct(o) : o \in WindowOptions} /\ ClientFields

\* a client that is constructed with the defaults and never used
ClientIdle ==
  /\ cfg = Construct(Options(None, None, None, None, None, None))
  /\ ClientFields

StatusEvent(b) == <<"status", [connected |-> b]>>
LockEvent(b) == <<"lock", [locked |-> b]>>
PulseEvent(d) == <<"pulse", d>>

LockEvents_acquireOnly(acquired, lost) ==
  IF acquired THEN <<LockEvent(TRUE)>> ELSE <<>>
\* handlePulse: the lock events emitted on a transition of locked
LockEvents(acquired, lost) ==
  IF acquired THEN <<LockEvent(TRUE)>>
  ELSE IF lost THEN <<LockEvent(FALSE)>> ELSE <<>>

\* connect()
Connect ==
  /\ lastOp' = "connect"
  /\ emitted' = <<>>
  /\ IF ws # 0
       THEN UNCHANGED <<socks, ws, sockLog>>
       ELSE /\ Len(socks) < MaxSockets
            /\ socks' = Append(socks, "connecting")
            /\ ws' = Len(socks) + 1
            /\ sockLog' = Append(sockLog, [wantPreserve |-> FALSE, gotPulse |-> FALSE])
  /\ UNCHANGED <<cfg, connected, lastPulse, lastPredictedArrivalMono, arrivalBiasMs,
                 stableCount, recentStability, preserveStateOnClose, lockOriginMonoMs,
                 lockOriginServerMs, locked, estimatedServerNowMs, nPulses, noiseless, errHist>>
  /\ UNCHANGED <<schedVars, hubVars, frameVars>>

\* WebSocket.close(): a socket that is not closed yet starts closing
SocketClose(ss, k) ==
  IF ss[k] \in {"connecting", "open"} THEN [ss EXCEPT ![k] = "closing"] ELSE ss

\* disconnect(preserveLock)
Disconnect(preserveLock) ==
  /\ lastOp' = "disconnect"
  /\ emitted' = <<>>
  /\ IF ws = 0
       THEN UNCHANGED <<socks, ws, connected, preserveStateOnClose, sockLog>>
       ELSE /\ preserveStateOnClose' = (preserveLock /\ locked)
            /\ sockLog' = [sockLog EXCEPT ![ws].wantPreserve = preserveLock /\ locked]
            /\ socks' = SocketClose(socks, ws)
            /\ ws' = 0
            /\ connected' = FALSE
  /\ UNCHANGED <<cfg, lastPulse, lastPredictedArrivalMono, arrivalBiasMs,
                 stableCount, recentStability, lockOriginMonoMs,
                 lockOriginServerMs, locked, estimatedServerNowMs, nPulses, noiseless, errHist>>
  /\ UNCHANGED <<schedVars, hubVars, frameVars>>

\* "open" listener of socket k
OnOpen(k) ==
  /\ k \in 1..Len(socks)
  /\ socks[k] = "connecting"
  /\ socks' = [socks EXCEPT ![k] = "open"]
  /\ connected' = TRUE
  /\ emitted' = <<StatusEvent(TRUE)>>
  /\ lastOp' = "open"
  /\ UNCHANGED <<cfg, ws, lastPulse, lastPredictedArrivalMono, arrivalBiasMs,
                 stableCount, recentStability, preserveStateOnClose, lockOriginMonoMs,
                 lockOriginServerMs, locked, estimatedServerNowMs, nPulses, noiseless, errHist,
                 sockLog>>
  /\ UNCHANGED <<schedVars, hubVars, frameVars>>

\* "close" listener of socket k: the server closed it, the connection
\* failed, or the closing started by WebSocket.close() has completed
OnClose(k) ==
  /\ k \in 1..Len(socks)
  /\ socks[k] \in {"connecting", "open", "closing"}
  /\ socks' = [socks EXCEPT ![k] = "closed"]
  /\ preserveStateOnClose' = FALSE
  /\ connected' = FALSE
  /\ ws' = 0
  /\ IF ~preserveStateOnClose
       THEN /\ locked' = FALSE
            /\ stableCount' = 0
            /\ recentStability' = <<>>
            /\ lockOriginMonoMs' = clearLockOrigin(lockOriginMonoMs)
            /\ lockOriginServerMs' = clearLockOrigin(lockOriginServerMs)
            /\ noiseless' = FALSE
            /\ errHist' = <<>>
       ELSE UNCHANGED <<locked, stableCount, recentStability, lockOriginMonoMs,
                        lockOriginServerMs, noiseless, errHist>>
  /\ emitted' = <<StatusEvent(FALSE)>>
  /\ lastOp' = "close"
  /\ sockLog' = [sockLog EXCEPT ![k] = [wantPreserve |-> FALSE, gotPulse |-> FALSE]]
  /\ UNCHANGED <<cfg, lastPulse, lastPredictedArrivalMono, arrivalBiasMs,
                 estimatedServerNowMs, nPulses>>
  /\ UNCHANGED <<schedVars, hubVars, frameVars>>

\* "message" listener of socket k with data that does not parse as JSON or
\* is no pulse message: returns before handlePulse
OnOtherMessage(k) ==
  /\ k \in 1..Len(socks)
  /\ socks[k] = "open"
  /\ \E data \in {"not json", "{\"type\":\"hello\"}"} :
       /\ lastOp' = "discard"
       /\ emitted' = <<>>
  /\ UNCHANGED <<cfg, socks, clientState, nPulses, noiseless, errHist, sockLog>>
  /\ UNCHANGED <<schedVars, hubVars, frameVars>>

\* handlePulse(pulse) with performance.now() = arrival, and a later reading
\* arrival + lag inside serverNowMs() and elapsedSinceLockMs()
HandlePulse(pulse, arrival, lag) ==
  IF IgnorePulse
  THEN /\ emitted' = <<>>
       /\ UNCHANGED <<socks, clientState, nPulses, noiseless, errHist>>
  ELSE
    LET previousPrediction == lastPredictedArrivalMono
        errorMs == PredictionError(previousPrediction, arrival)
        bias == IF errorMs = None THEN arrivalBiasMs
                ELSE arrivalBiasMs + MulBeta(clamp(Val(errorMs), -cfg.maxBiasCorrectionMs,
                                                   cfg.maxBiasCorrectionMs))
        periodMs == finiteOr(pulse.period_ms, Ms(FallbackPeriodMs))
        lp == Some([seq |-> pulse.seq,
                    serverNowMs |-> finiteOr(pulse.now_ms, FallbackServerMs),
                    serverNextMs |-> finiteOr(pulse.next_ms, FallbackServerMs),
                    periodMs |-> periodMs,
                    arrivalMonoMs |-> arrival])
        window == updateStability(recentStability, errorMs)
        count == IF errorMs = None THEN stableCount ELSE CountTrue(window)
        wasLocked == locked
        nowLocked == Len(window) >= cfg.requiredStablePulses /\ count >= stabilityTarget
        acquired == ~wasLocked /\ nowLocked
        lost == wasLocked /\ ~nowLocked
        originMono == IF acquired THEN Some(arrival)
                      ELSE IF lost THEN clearLockOrigin(lockOriginMonoMs)
                      ELSE lockOriginMonoMs
        originServer == IF acquired THEN Some(Val(lp).serverNowMs)
                        ELSE IF lost THEN clearLockOrigin(lockOriginServerMs)
                        ELSE lockOriginServerMs
        leave == acquired /\ cfg.stickyLock /\ ws # 0
        estimate == serverNowAt(nowLocked, originMono, originServer, lp, arrival + lag)
        detail == [seq |-> pulse.seq,
                   periodMs |-> periodMs,
                   serverNowMs |-> Val(lp).serverNowMs,
                   serverNextMs |-> Val(lp).serverNextMs,
                   arrivalMonoMs |-> arrival,
                   predictedArrivalMonoMs |-> previousPrediction,
                   errorMs |-> errorMs,
                   biasMs |-> bias,
                   stableCount |-> count,
                   locked |-> nowLocked,
                   estimatedServerNowMs |-> estimate,
                   elapsedSinceLockMs |-> elapsedSinceLockAt(nowLocked, originMono, arrival + lag)]
    IN /\ nPulses < MaxPulses
       /\ arrivalBiasMs' = bias
       /\ lastPulse' = lp
       /\ lastPredictedArrivalMono' = predictNextArrival(lp, bias)
       /\ recentStability' = window
       /\ stableCount' = count
       /\ locked' = nowLocked
       /\ lockOriginMonoMs' = originMono
       /\ lockOriginServerMs' = originServer
       /\ IF leave
            THEN /\ preserveStateOnClose' = TRUE
                 /\ socks' = SocketClose(socks, ws)
                 /\ ws' = 0
                 /\ connected' = FALSE
            ELSE UNCHANGED <<preserveStateOnClose, socks, ws, connected>>
       /\ estimatedServerNowMs' = estimate
       /\ emitted' = LockEvents(acquired, lost) \o <<PulseEvent(detail)>>
       /\ nPulses' = nPulses + 1
       /\ noiseless' = (noiseless /\ (lastPulse = None
                          \/ arrival - Val(lastPulse).arrivalMonoMs = Val(lastPulse).periodMs))
       /\ errHist' = IF errorMs = None THEN errHist
                     ELSE Append(errHist, Abs(Val(errorMs)) > cfg.thresholdMs)

\* "message" listener of socket k with a pulse message
OnPulseMessage(k) ==
  /\ k \in 1..Len(socks)
  /\ socks[k] = "open"
  /\ lastOp' = "pulse"
  /\ \E in \in Inbound, lag \in 0..MaxLag : HandlePulse(in[1], in[2], lag)
  /\ sockLog' = IF IgnorePulse THEN sockLog
                ELSE LET heard == [sockLog EXCEPT ![k].gotPulse = TRUE]
                     IN IF ~locked /\ locked' /\ cfg.stickyLock /\ ws # 0
                          THEN [heard EXCEPT ![ws].wantPreserve = TRUE]
                          ELSE heard
  /\ UNCHANGED cfg
  /\ UNCHANGED <<schedVars, hubVars, frameVars>>

ClientNext ==
  \/ Connect
  \/ \E p \in BOOLEAN : Disconnect(p)
  \/ \E k \in 1..MaxSockets : OnOpen(k)
  \/ \E k \in 1..MaxSockets : OnClose(k)
  \/ \E k \in 1..MaxSockets : OnOtherMessage(k)
  \/ \E k \in 1..MaxSockets : OnPulseMessage(k)

\* one client that only connects and listens: no disconnect() calls by the
\* application and no foreign messages
StreamNext ==
  \/ Connect
  \/ \E k \in 1..MaxSockets : OnOpen(k)
  \/ \E k \in 1..MaxSockets : OnClose(k)
  \/ \E k \in 1..MaxSockets : OnPulseMessage(k)

(* --------------------------- specifications --------------------------- *)
\* the writer of frames at rest
FrameIdle == frameLen = 0 /\ frameHdr = <<>>

InitPulse == SchedInit /\ HubIdle /\ ClientIdle /\ FrameIdle

SpecPulse == InitPulse /\ [][PulseNext]_vars

InitHub == SchedIdle /\ HubInit /\ ClientIdle /\ FrameIdle

SpecHub == InitHub /\ [][HubNext]_vars

\* the Go scheduler runs every goroutine that is not blocked: as long as
\* some goroutine can step, one of them does
InitHubFair == SchedIdle /\ HubInitLate /\ ClientIdle /\ FrameIdle

SpecHubFair == InitHubFair /\ [][HubNext]_vars /\ WF_vars(ProgressSteps)

InitUpgrade == SchedIdle /\ UpgradeInit /\ ClientIdle /\ FrameIdle

SpecUpgrade == InitUpgrade /\ [][UpgradeNext]_vars

InitFrame == SchedIdle /\ HubIdle /\ ClientIdle /\ FrameInit

SpecFrame == InitFrame /\ [][FrameNext]_vars

InitClient == SchedIdle /\ HubIdle /\ ClientInit /\ FrameIdle

SpecClient == InitClient /\ [][ClientNext]_vars

InitClientWindow == SchedIdle /\ HubIdle /\ ClientInitWindow /\ FrameIdle

SpecClientWindow == InitClientWindow /\ [][StreamNext]_vars


(* ----------------------- scheduler properties -------------------------- *)
\* C1: the first broadcast message has seq 0 and every later message has a
\* seq exactly one greater than its predecessor, also after the catch-up
\* loop has stepped over missed instants (they consume no sequence number).
C1_SeqConsecutive ==
  \A i \in 1..Len(sent) : sent[i].seq = i - 1

\* a message was emitted after the catch-up loop stepped over an instant
C1_Witness ==
  /\ Len(sent) >= 3
  /\ \E k \in skipped : k < sentSched[Len(sent)]

\* C2 (as stated): every emitted message has next_ms - now_ms = period_ms.
C2_ExactPeriod ==
  \A i \in 1..Len(sent) : sent[i].next_ms - sent[i].now_ms = sent[i].period_ms

\* C2 (amended): next_ms lies on the schedule grid while now_ms is the
\* actual reading, so next_ms - now_ms is at most period_ms; it equals
\* period_ms exactly when the now reading falls in the same millisecond as
\* the message's scheduled instant (no whole-millisecond lateness).
C2_AtMostPeriod ==
  \A i \in 1..Len(sent) :
     /\ sent[i].next_ms - sent[i].now_ms <= sent[i].period_ms
     /\ (sent[i].next_ms - sent[i].now_ms = sent[i].period_ms)
          <=> (UnixMilli(sentNow[i]) = UnixMilli(sentSched[i]))

\* a late regular tick and a punctual regular tick have both been emitted
C2_Witness ==
  /\ \E i \in 2..Len(sent) : sent[i].next_ms - sent[i].now_ms < sent[i].period_ms
  /\ \E i \in 2..Len(sent) : sent[i].next_ms - sent[i].now_ms = sent[i].period_ms

\* C3: no regular tick carries a next_ms earlier than the now_ms reading
\* taken for that same message, however late the wake-up after the sleep was.
C3_NextNotInPast ==
  \A i \in 2..Len(sent) : sent[i].next_ms >= sent[i].now_ms

\* C4: catch-up policy. When the catch-up loop is left, scheduled_next is
\* later than the clock reading of its last test; no message was emitted for
\* an instant the loop stepped over; and the scheduled instants of successive
\* messages strictly increase (never two messages for one nominal tick).
C4_CatchUp ==
  /\ \A i \in 1..(Len(sent) - 1) : sentSched[i] < sentSched[i + 1]
  /\ \A i \in 1..Len(sent) : sentSched[i] \notin skipped
  /\ (spc = "sleep" /\ Len(sent) >= 2) => next > untilRead

\* the loop stepped over an instant, finished, and a later tick was emitted
C4_Witness ==
  /\ skipped # {}
  /\ spc = "sleep"
  /\ Len(sent) >= 3
  /\ \E k \in skipped : k < sentSched[Len(sent)]

(* -------------------------- hub properties ----------------------------- *)
\* C5: when broadcastJSON returns, every connection of its snapshot either
\* had the message written to it successfully or is no longer a hub member;
\* every snapshot member was written to even though other writes failed; and
\* at no time has the call written to a connection outside its snapshot
\* (none that was added after the snapshot was taken).
C5_BroadcastDelivery ==
  /\ (bWritten \cup bFailed) \subseteq bTaken
  /\ bpc = "ret" =>
       /\ \A c \in bTaken : c \in bWritten \/ c \notin conns
       /\ (bWritten \cup bFailed) = bTaken

\* a call returns after one write failed and another snapshot member was
\* still written to
C5_Witness ==
  /\ bpc = "ret"
  /\ bFailed # {}
  /\ bWritten # {}

\* C6 (as stated): close is never invoked a second time on a connection.
C6_CloseInvokedOnce ==
  \A c \in Conns : closeCalls[c] <= 1

\* C6 (amended): a registered connection is deleted from the hub exactly
\* once and its transport is closed by the time its reader task has ended,
\* and a hub member is never closed; but close is invoked twice on the same
\* connection when broadcastJSON removed it after a failed write and the
\* reader task's deferred remove follows (never more than twice).
C6_RemovedOnceClosedAtMostTwice ==
  \A c \in Conns :
     /\ removals[c] <= 1
     /\ closeCalls[c] <= 2
     /\ c \in conns => (closeCalls[c] = 0 /\ ~closed[c])
     /\ rpc[c] = "done" => (c \notin conns /\ closed[c] /\ removals[c] = 1)

\* a connection was removed by both paths and its reader has ended
C6_Witness ==
  \E c \in Conns : closeCalls[c] = 2 /\ rpc[c] = "done" /\ c \in bFailed

(* ------------------------- client properties --------------------------- *)
\* a pulse has just been processed by handlePulse (not discarded by the
\* sticky-lock check): every processed pulse emits a pulse event
Processed == lastOp = "pulse" /\ emitted # <<>>

\* C7 (as stated): after handlePulse has processed a message, locked holds
\* iff the window holds at least requiredStablePulses entries and
\* stableCount >= requiredStablePulses - allowedUnstablePulses.
C7_LockIffWindowTarget ==
  Processed =>
    (locked <=> /\ Len(recentStability) >= cfg.requiredStablePulses
                /\ stableCount >= cfg.requiredStablePulses - cfg.allowedUnstablePulses)

\* C7 (amended): ... iff the window is full and stableCount reaches both
\* requiredStablePulses - allowedUnstablePulses and 1: with a tolerance at
\* or above the window size one stable entry is still required.
C7_LockIffWindowTargetAtLeastOne ==
  Processed =>
    (locked <=> /\ Len(recentStability) >= cfg.requiredStablePulses
                /\ stableCount >= cfg.requiredStablePulses - cfg.allowedUnstablePulses
                /\ stableCount >= 1)

\* a full window without a stable entry under a tolerance that is not below
\* the window size: the client is not locked
C7_Witness ==
  /\ Processed
  /\ cfg.allowedUnstablePulses >= cfg.requiredStablePulses
  /\ Len(recentStability) >= cfg.requiredStablePulses
  /\ stableCount = 0
  /\ ~locked

\* C8: while every message has arrived exactly one period after its
\* predecessor (and no close has cleared the engine), the bias is 0 and the
\* client is locked exactly from the message that follows the first one by
\* requiredStablePulses on: the first message carries no error and does not
\* enter the window, the next requiredStablePulses fill it; not earlier, and
\* the lock is not lost afterwards.
C8_NoiselessLock ==
  noiseless =>
    /\ arrivalBiasMs = 0
    /\ locked <=> (nPulses >= cfg.requiredStablePulses + 1)

\* a non-sticky client has processed a further noiseless message after the
\* one that locked it, and is still locked
C8_Witness ==
  /\ noiseless
  /\ ~cfg.stickyLock
  /\ Processed
  /\ nPulses >= cfg.requiredStablePulses + 2
  /\ locked

\* number of outliers among the last seven error-bearing pulses
OutliersInLast7 ==
  CountTrue(SubSeq(errHist, Len(errHist) - 6, Len(errHist)))

\* C9: with requiredStablePulses = 7, allowedUnstablePulses = 2 and
\* thresholdMs = 5 the client is locked exactly when seven error-bearing
\* pulses have been seen and the last seven of them contain at most two with
\* |error| > 5 ms; with three or more it is not locked.
C9_OutlierTolerance ==
  (cfg.requiredStablePulses = 7 /\ cfg.allowedUnstablePulses = 2 /\ cfg.thresholdMs = Ms(5)) =>
    (locked <=> (Len(errHist) >= 7 /\ OutliersInLast7 <= 2))

\* the window has slid and the client is locked with two outliers among the
\* last seven pulses
C9_Witness ==
  /\ Processed
  /\ Len(errHist) >= 8
  /\ OutliersInLast7 = 2
  /\ errHist[Len(errHist) - 7]
  /\ locked

\* C10: a message delivered to a sticky client that is already locked changes
\* no engine field and dispatches no event.
C10_StickyLockedIgnores ==
  [][(cfg.stickyLock /\ locked /\ lastOp' = "pulse")
       => (UNCHANGED clientState /\ emitted' = <<>>)]_vars

\* a sticky, locked client has reconnected and a pulse message was delivered
\* to it and discarded
C10_Witness ==
  /\ cfg.stickyLock
  /\ locked
  /\ lastOp = "pulse"
  /\ emitted = <<>>
  /\ \E k \in 1..Len(socks) : socks[k] = "open"

(* ---------------------- projection and lock origin --------------------- *)
\* the reading of the monotonic clock inside serverNowMs(), taken while the
\* last pulse was handled: its arrival reading plus the handler's delay
ReadingTimes ==
  {Val(lastPulse).arrivalMonoMs + d : d \in 0..MaxLag}

\* C11 as stated: the projection reported with a processed pulse is the
\* lock-origin estimate when locked with a lock origin, and the estimate
\* from the last accepted pulse when the client is not locked; it is null
\* only when no pulse has been seen.
C11_FallbackWhenUnlocked ==
  Processed =>
    \E t \in ReadingTimes :
      estimatedServerNowMs =
        IF locked /\ lockOriginMonoMs # None /\ lockOriginServerMs # None
          THEN Some(Val(lockOriginServerMs) + (t - Val(lockOriginMonoMs)))
          ELSE Some(Val(lastPulse).serverNowMs + (t - Val(lastPulse).arrivalMonoMs))

\* C11 (amended): the projection is lockOriginServerMs + (t - lockOriginMonoMs)
\* while the client is locked and null whenever it is not locked, also
\* after pulses were accepted and after a non-sticky client lost lock; and
\* as long as the client stays locked the lock origin behind the
\* projection is not changed by later messages.
C11_NullWhenUnlocked ==
  /\ [](Processed =>
         \E t \in ReadingTimes :
           estimatedServerNowMs =
             IF locked THEN Some(Val(lockOriginServerMs) + (t - Val(lockOriginMonoMs)))
             ELSE None)
  /\ [][locked /\ locked' => UNCHANGED <<lockOriginMonoMs, lockOriginServerMs>>]_vars

\* a non-sticky client has just lost lock on a pulse: it has a last pulse
\* and its projection is null
C11_Witness ==
  /\ Processed
  /\ ~cfg.stickyLock
  /\ ~locked
  /\ emitted[1] = LockEvent(FALSE)
  /\ lastPulse # None
  /\ estimatedServerNowMs = None

\* C12: in a non-sticky client, a message that takes the client from locked
\* to not locked clears the lock origin and emits exactly one lock
\* {locked:false} event, before that message's pulse event; a message that
\* takes it from unlocked to locked sets the lock origin to that message's
\* arrival reading and now_ms and emits exactly one lock {locked:true} event.
C12_LockTransitions ==
  [][(~cfg.stickyLock /\ lastOp' = "pulse" /\ emitted' # <<>>) =>
       LET lockEvents == SelectSeq(emitted', LAMBDA ev : ev[1] = "lock")
           message == emitted'[Len(emitted')]
       IN /\ message[1] = "pulse"
          /\ (locked /\ ~locked') =>
                /\ lockOriginMonoMs' = None
                /\ lockOriginServerMs' = None
                /\ lockEvents = <<LockEvent(FALSE)>>
                /\ emitted'[1] = LockEvent(FALSE)
                /\ Len(emitted') = 2
          /\ (~locked /\ locked') =>
                /\ lockOriginMonoMs' = Some(message[2].arrivalMonoMs)
                /\ lockOriginServerMs' = Some(message[2].serverNowMs)
                /\ lockEvents = <<LockEvent(TRUE)>>
                /\ emitted'[1] = LockEvent(TRUE)]_vars

\* a non-sticky client that was locked has processed a message that took
\* the lock away: lock-lost event, then the pulse event, origin cleared
C12_Witness ==
  /\ Processed
  /\ ~cfg.stickyLock
  /\ Len(emitted) = 2
  /\ emitted[1] = LockEvent(FALSE)
  /\ emitted[2][1] = "pulse"
  /\ ~emitted[2][2].locked
  /\ lockOriginMonoMs = None
  /\ lockOriginServerMs = None

\* C13: the lock origin is present if and only if the client is locked:
\* between event handlers lockOriginMonoMs and lockOriginServerMs are both
\* non-null exactly when locked is true.
C13_OriginIffLocked ==
  /\ locked <=> (lockOriginMonoMs # None /\ lockOriginServerMs # None)
  /\ ~locked => (lockOriginMonoMs = None /\ lockOriginServerMs = None)

\* a locked client whose socket was closed with its state preserved and
\* that has connected again still has its lock origin
C13_Witness ==
  /\ locked
  /\ lockOriginMonoMs # None
  /\ lockOriginServerMs # None
  /\ Len(socks) = 2
  /\ socks[1] = "closed"
  /\ socks[2] = "open"

(* ------------------------ disconnect and reconnect --------------------- *)
\* C14: the close of a socket keeps locked, the lock origin, the stability
\* window and stableCount if and only if the disconnect of that socket asked
\* to preserve the lock while the client was locked (the automatic
\* disconnect at sticky lock acquisition included); every other close, a
\* server-initiated one included, sets locked to false and clears the
\* window, stableCount and lock origin; both emit status {connected:false}.
C14_PreserveOnClose ==
  [][\A k \in 1..Len(socks) :
       (socks[k] # "closed" /\ socks'[k] = "closed") =>
         /\ emitted' = <<StatusEvent(FALSE)>>
         /\ IF sockLog[k].wantPreserve
              THEN UNCHANGED <<locked, lockOriginMonoMs, lockOriginServerMs,
                               recentStability, stableCount>>
              ELSE /\ locked' = FALSE
                   /\ recentStability' = <<>>
                   /\ stableCount' = 0
                   /\ lockOriginMonoMs' = None
                   /\ lockOriginServerMs' = None]_vars

\* C15: after a disconnect and a later connect the transient fields start
\* from empty: when the first message on the new connection is processed
\* the window is empty and there is no previous prediction, so the message
\* has a null error, updates no bias and does not enter the window.
C15_FreshAfterReconnect ==
  [][\A k \in 2..Len(socks) :
       (~sockLog[k].gotPulse /\ sockLog'[k].gotPulse) =>
         /\ lastPredictedArrivalMono = None
         /\ recentStability = <<>>
         /\ emitted'[Len(emitted')][2].errorMs = None
         /\ arrivalBiasMs' = arrivalBiasMs
         /\ recentStability' = recentStability]_vars

(* --------------------------- upgrade handshake ------------------------- *)
\* a request that must be refused: its Connection header has no upgrade
\* token, its Upgrade header is no spelling of "websocket", its version is
\* not "13", or its key is empty
BadHandshake(req) ==
  \/ \A i \in 1..Len(req.connection) : req.connection[i] \notin {"Upgrade", " Upgrade"}
  \/ req.upgrade \notin {"websocket", "WebSocket"}
  \/ req.version # "13"
  \/ req.key = ""

\* C16: a request whose Connection header lacks the upgrade token, whose
\* Upgrade header is not "websocket" (case-insensitive), whose version is
\* not "13" or whose key is empty gets no connection from upgradeWebSocket:
\* the /ws handler answers it with a client-error status and the connection
\* is never added to the hub nor given a reader.
C16_RejectedUpgrade ==
  \A c \in Conns :
    (hpc[c] # "idle" /\ BadHandshake(wsReq[c].req)) =>
      /\ hresp[c].err # "ok"
      /\ hresp[c].status \in 400..499
      /\ hpc[c] = "rejected"
      /\ rpc[c] = "none"
      /\ c \notin conns
      /\ removals[c] = 0

\* a request with every header right except an empty key has been answered
\* with status 400 and the hub has no member
C16_Witness ==
  \E c \in Conns :
    /\ hpc[c] = "rejected"
    /\ wsReq[c].req.key = ""
    /\ hresp[c] = [err |-> "missing websocket key", status |-> 400]
    /\ conns = {}

(* ------------------------------ frame header --------------------------- *)
RECURSIVE BigEndian(_)
\* the number a receiver reads from big-endian bytes
BigEndian(bytes) ==
  IF bytes = <<>> THEN 0
  ELSE BigEndian(SubSeq(bytes, 1, Len(bytes) - 1)) * 256 + bytes[Len(bytes)]

\* the payload length a receiver reads from a frame header: the second byte
\* itself below 126, the next two bytes after 126, the next eight after 127
DecodeLength(h) ==
  IF h[2] < 126 THEN h[2]
  ELSE IF h[2] = 126 THEN BigEndian(SubSeq(h, 3, 4))
  ELSE BigEndian(SubSeq(h, 3, 10))

\* C17: the frame header of a payload of n bytes is [0x81, n] for n < 126,
\* [0x81, 126] and n in two big-endian bytes for 126 <= n <= 65535, and
\* [0x81, 127] and n in eight big-endian bytes for n > 65535; reading the
\* length field back by the same rules gives n.
C17_FrameHeaderRoundTrip ==
  frameHdr # <<>> =>
    /\ \A i \in 1..Len(frameHdr) : frameHdr[i] \in 0..255
    /\ frameHdr[1] = 129
    /\ frameLen < 126 => frameHdr = <<129, frameLen>>
    /\ (frameLen >= 126 /\ frameLen <= 65535) =>
         /\ Len(frameHdr) = 4
         /\ frameHdr[2] = 126
         /\ frameHdr[3] * 256 + frameHdr[4] = frameLen
    /\ frameLen > 65535 =>
         /\ Len(frameHdr) = 10
         /\ frameHdr[2] = 127
         /\ BigEndian(SubSeq(frameHdr, 3, 10)) = frameLen
    /\ DecodeLength(frameHdr) = frameLen

\* the header of a payload of 65536 bytes has been written: the first
\* length that takes the eight-byte form
C17_Witness ==
  /\ frameLen = 65536
  /\ frameHdr = <<129, 127, 0, 0, 0, 0, 0, 1, 0, 0>>

(* ------------------------------ hub locking ---------------------------- *)
\* some task is inside add, remove, count or broadcastJSON
Pending ==
  \/ bpc # "idle"
  \/ \E c \in Conns : hpc[c] \in {"add_lock", "add_body", "count_lock", "count_body"}
  \/ \E c \in Conns : rpc[c] \in {"rm_lock", "rm_body", "count_lock", "count_body"}

\* C18: broadcastJSON holds no hub lock while it writes to a connection;
\* while a write is in progress the hub lock is free for add, remove and
\* count of the other tasks or held by one of them that can finish its
\* operation; and as long as any task is inside add, remove, count or
\* broadcastJSON some task can take a step (no deadlock).
C18_WriteOutsideHubLock ==
  /\ bpc = "write" => (hubW # BTask /\ BTask \notin hubR)
  /\ bpc = "write" =>
       \A c \in Conns :
         /\ hubW = HTask(c) => ENABLED HandleAddBody(c)
         /\ hubW = RTask(c) => ENABLED ReaderRemoveBody(c)
         /\ HTask(c) \in hubR => ENABLED HandleCountSpawn(c)
         /\ RTask(c) \in hubR => ENABLED ReaderCountDone(c)
         /\ (hubW = NoTask /\ hubR = {} /\ hpc[c] = "add_lock") => ENABLED HandleAddLock(c)
         /\ (hubW = NoTask /\ hubR = {} /\ rpc[c] = "rm_lock") => ENABLED ReaderRemoveLock(c)
         /\ (hubW = NoTask /\ hpc[c] = "count_lock") => ENABLED HandleCountLock(c)
         /\ (hubW = NoTask /\ rpc[c] = "count_lock") => ENABLED ReaderCountLock(c)
  /\ Pending => ENABLED TaskSteps

\* while broadcastJSON is writing to one connection, the handler of another
\* connection is inside hub.add holding the hub lock
C18_Witness ==
  /\ bpc = "write"
  /\ \E c \in Conns : c # bCur /\ hubW = HTask(c) /\ hpc[c] = "add_body"

(* --------------------------- removal by the reader --------------------- *)
\* the reader of connection c has run its h.remove
ReaderRemoved(c) == rpc[c] \in {"count_lock", "count_body", "done"}

\* connection c has been registered by hub.add (it stays so, as the peer's
\* close does: neither is ever undone)
Registered(c) == hpc[c] \in {"count_lock", "count_body", "done"}

\* C19: under fair scheduling every registered connection whose peer has
\* closed it is eventually removed from the hub by its reader task, whether
\* or not a broadcast fails on it: every run reaches a point from which on
\* each registered connection with a closed peer has been removed by its
\* reader; once the reader has removed it, it is no member of the hub
\* (hub.count does not include it) and no snapshot taken by a later
\* broadcast contains it.
C19_ReaderRemovesClosedPeer ==
  /\ <>[](\A c \in Conns :
            (Registered(c) /\ peerGone[c]) => (c \notin conns /\ ReaderRemoved(c)))
  /\ [](\A c \in Conns : ReaderRemoved(c) => c \notin conns)
  /\ [][(bpc = "snap" /\ bpc' = "loop") =>
          \A c \in Conns : ReaderRemoved(c) => c \notin bTaken']_vars

\* a connection whose peer closed has been removed by its reader although
\* no broadcast has run since it was registered
C19_Witness ==
  \E c \in Conns :
    /\ peerGone[c]
    /\ rpc[c] = "done"
    /\ removals[c] = 1
    /\ c \notin conns
    /\ bcasts < MaxBroadcasts
    /\ bpc = "idle"

(* ---------------------------- stability window ------------------------- *)
\* the classifications (stable or not) of the last n error-bearing messages
\* since the window was last cleared, oldest first
LastClassifications(n) ==
  [i \in 1..n |-> ~errHist[Len(errHist) - n + i]]

\* C20: the window holds at most requiredStablePulses entries, they are the
\* classifications of the most recent error-bearing messages in arrival
\* order, and stableCount is the number of true entries in the window.
C20_WindowInvariant ==
  /\ Len(recentStability) <= cfg.requiredStablePulses
  /\ recentStability = LastClassifications(Min(cfg.requiredStablePulses, Len(errHist)))
  /\ stableCount = Cardinality({i \in 1..Len(recentStability) : recentStability[i]})

\* the window is full, has evicted its oldest entry and holds stable and
\* unstable entries
C20_Witness ==
  /\ Processed
  /\ Len(errHist) > cfg.requiredStablePulses
  /\ Len(recentStability) = cfg.requiredStablePulses
  /\ stableCount > 0
  /\ stableCount < Len(recentStability)

(* --------------------------- lock notifications ------------------------ *)
\* the lock events among the events emitted by the latest handler
LockEventsOf(events) == SelectSeq(events, LAMBDA ev : ev[1] = "lock")

\* C21: lock notifications track the lock state: every handler that changes
\* locked emits exactly one lock event carrying the new value (the close
\* without preserved state included), and a handler that leaves locked
\* alone emits no lock event; so the latest lock event equals locked and
\* lock {locked:true} and lock {locked:false} events strictly alternate.
C21_LockEventsTrackLocked ==
  [][IF locked' # locked
       THEN LockEventsOf(emitted') = <<LockEvent(locked')>>
       ELSE LockEventsOf(emitted') = <<>>]_vars

(* ------------------------- late close after reconnect ------------------ *)
\* socket k is an older socket whose close event is still due while the
\* client holds the handle of a newer socket
LateClose(k) ==
  /\ ws # 0
  /\ ws # k
  /\ socks[k] # "closed"

\* C22: the late close event of a disconnected socket does not disturb the
\* newer connection: the client keeps the handle of the new socket,
\* connected still tells whether the new socket is open, and the preserve
\* flag recorded for the old socket decides what this close clears.
C22_LateCloseKeepsNewSocket ==
  [][\A k \in 1..Len(socks) :
       (LateClose(k) /\ socks'[k] = "closed") =>
         /\ ws' = ws
         /\ connected' = (socks'[ws] = "open")
         /\ sockLog[k].wantPreserve =>
              UNCHANGED <<locked, lockOriginMonoMs, lockOriginServerMs,
                          recentStability, stableCount>>]_vars
====
